---- MODULE Spec2Model ----
(***************************************************************************)
(* Model of the fixed-dimension linear Kalman filter of                    *)
(* filters/kalman-filter/src/filter.rs.                                    *)
(*                                                                         *)
(* Scalars (f64 in the source) are exact rationals <<n, d>> with d > 0 in  *)
(* lowest terms; rounding of f64 arithmetic is not modelled.  Matrices     *)
(* (nalgebra SMatrix<f64, R, C>) are sequences of R rows of C scalars,     *)
(* vectors (SVector<f64, R>) are R x 1 matrices.  The const generics       *)
(* TC, MR, BR are the shapes of the matrices the filter was built with.    *)
(***************************************************************************)
EXTENDS Integers, Sequences, FiniteSets, TLC

\* Number of calls taking the filter mutably or by value (step, with_state,
\* with_input_model) that one behaviour explores.
MaxCalls == 3

\* step is explored from stored estimates whose numerators and denominators
\* do not exceed MaxEntry, which keeps the exact arithmetic within TLC's integers.
MaxEntry == 60

-----------------------------------------------------------------------------
(* f64 scalars as exact rationals *)

Abs(x) == IF x < 0 THEN -x ELSE x

RECURSIVE Gcd(_, _)
Gcd(a, b) == IF b = 0 THEN a ELSE Gcd(b, a % b)

Rat(n, d) ==
    LET s == IF d < 0 THEN -1 ELSE 1
        g == Gcd(Abs(n), Abs(d))
    IN  <<(s * n) \div g, (s * d) \div g>>

R(n) == <<n, 1>>
\* Sums and products cancel common factors before multiplying.
RAdd(a, b) ==
    LET g == Gcd(a[2], b[2])
    IN  Rat(a[1] * (b[2] \div g) + b[1] * (a[2] \div g), (a[2] \div g) * b[2])
RNeg(a) == <<-a[1], a[2]>>
RSub(a, b) == RAdd(a, RNeg(b))
RMul(a, b) ==
    LET g == Gcd(Abs(a[1]), b[2])
        h == Gcd(Abs(b[1]), a[2])
    IN  Rat((a[1] \div g) * (b[1] \div h), (a[2] \div h) * (b[2] \div g))
RDiv(a, b) == RMul(a, IF b[1] < 0 THEN <<-b[2], -b[1]>> ELSE <<b[2], b[1]>>)
RIsZero(a) == a[1] = 0
RLeqZero(a) == a[1] <= 0

-----------------------------------------------------------------------------
(* nalgebra statically sized matrices *)

Rows(A) == Len(A)
Cols(A) == Len(A[1])

\* The r x c matrix with the entries of the function A, as r rows of c scalars.
RECURSIVE RowOf(_, _)
RowOf(row, c) == IF c = 0 THEN <<>> ELSE Append(RowOf(row, c - 1), row[c])

RECURSIVE RowsOf(_, _, _)
RowsOf(A, r, c) ==
    IF r = 0 THEN <<>> ELSE Append(RowsOf(A, r - 1, c), RowOf(A[r], c))

Mat(A) ==
    RowsOf([i \in 1..Len(A) |-> [j \in 1..Len(A[1]) |-> R(A[i][j])]],
           Len(A), Len(A[1]))
Zeros(r, c) == RowsOf([i \in 1..r |-> [j \in 1..c |-> R(0)]], r, c)
Identity(n) ==
    RowsOf([i \in 1..n |-> [j \in 1..n |-> IF i = j THEN R(1) ELSE R(0)]], n, n)

MAdd(A, B) ==
    RowsOf([i \in 1..Rows(A) |-> [j \in 1..Cols(A) |-> RAdd(A[i][j], B[i][j])]],
           Rows(A), Cols(A))
MSub(A, B) ==
    RowsOf([i \in 1..Rows(A) |-> [j \in 1..Cols(A) |-> RSub(A[i][j], B[i][j])]],
           Rows(A), Cols(A))
MScale(A, s) ==
    RowsOf([i \in 1..Rows(A) |-> [j \in 1..Cols(A) |-> RMul(A[i][j], s)]],
           Rows(A), Cols(A))
Transpose(A) ==
    RowsOf([j \in 1..Cols(A) |-> [i \in 1..Rows(A) |-> A[i][j]]],
           Cols(A), Rows(A))

RECURSIVE Dot(_, _, _, _, _)
Dot(A, B, i, j, k) ==
    IF k = 0 THEN R(0)
    ELSE RAdd(Dot(A, B, i, j, k - 1), RMul(A[i][k], B[k][j]))

MMul(A, B) ==
    RowsOf([i \in 1..Rows(A) |-> [j \in 1..Cols(B) |-> Dot(A, B, i, j, Cols(A))]],
           Rows(A), Cols(B))

Small(A) ==
    \A i \in 1..Rows(A), j \in 1..Cols(A) :
        Abs(A[i][j][1]) <= MaxEntry /\ A[i][j][2] <= MaxEntry

Det(A) ==
    IF Rows(A) = 1 THEN A[1][1]
    ELSE RSub(RMul(A[1][1], A[2][2]), RMul(A[2][1], A[1][2]))

\* Option<T>: None is the empty sequence, Some(v) is <<v>>.
None == <<>>
Some(v) == <<v>>
UnwrapOr(o, d) == IF o = None THEN d ELSE o[1]

\* SMatrix::try_inverse for the 1 x 1 and 2 x 2 shapes: None when the
\* determinant is zero, otherwise the closed-form inverse.
TryInverse(A) ==
    IF RIsZero(Det(A)) THEN None
    ELSE IF Rows(A) = 1 THEN Some(<<<<RDiv(R(1), A[1][1])>>>>)
    ELSE LET d == Det(A)
         IN  Some(<< <<RDiv(A[2][2], d), RDiv(RNeg(A[1][2]), d)>>,
                     <<RDiv(RNeg(A[2][1]), d), RDiv(A[1][1], d)>> >>)

-----------------------------------------------------------------------------
(* struct KalmanFilter<TC, MR, BR> and the record of the last call *)

VARIABLES
    transition_model,   \* TransitionModel<TC>
    measurement_model,  \* MeasurementModel<MR, TC>
    measurement_noise,  \* TransitionNoise<TC>: the noise added by predict
    state,              \* State<TC>
    covariance,         \* Covariance<TC>
    input_model,        \* InputModel<TC, BR>
    last,               \* the last call: its name, arguments and return value
    calls               \* number of step / with_state / with_input_model calls

vars == <<transition_model, measurement_model, measurement_noise, state,
          covariance, input_model, last, calls>>

TC == Rows(transition_model)
MR == Rows(measurement_model)
BR == Cols(input_model)

\* Result<CurrentState<TC>, TransitionError>
Ok(s, c) == [ok |-> TRUE, state |-> s, covariance |-> c]
Err == [ok |-> FALSE, state |-> <<>>, covariance |-> <<>>]

\* pre is the stored (state, covariance) a step started from
Call(op, pre, cs, dt, obs, u, ret) ==
    [op |-> op, pre |-> pre, cs |-> cs, dt |-> dt, obs |-> obs, u |-> u,
     ret |-> ret]

-----------------------------------------------------------------------------
(* Arguments the calls are explored with *)

\* (transition_model, measurement_model, measurement_noise, BR) given to new
NewArgs ==
    { <<Mat(<<<<2>>>>), Mat(<<<<1>>>>), Mat(<<<<2>>>>), 1>>,
      <<Mat(<<<<2>>>>), Mat(<<<<1>>>>), Mat(<<<<2>>>>), 2>>,
      <<Mat(<<<<2>>>>), Mat(<<<<0>>>>), Mat(<<<<2>>>>), 1>>,
      <<Mat(<<<<3, 0>>, <<0, 3>>>>), Mat(<<<<1, 1>>>>),
        Mat(<<<<2, 0>>, <<0, 2>>>>), 1>>,
      <<Mat(<<<<1, 1>>, <<0, 1>>>>), Mat(<<<<1, 0>>, <<0, 1>>>>),
        Mat(<<<<2, 1>>, <<1, 2>>>>), 1>>,
      <<Mat(<<<<1, 1>>, <<0, 1>>>>), Mat(<<<<1, 0>>, <<0, 0>>>>),
        Mat(<<<<1, 1>>, <<0, 1>>>>), 1>> }

DtValues == { R(-1), R(0), Rat(1, 2), R(1) }

\* (state, covariance) pairs of dimension n
CurrentStates(n) ==
    IF n = 1
    THEN { <<Mat(<<<<1>>>>), Mat(<<<<1>>>>)>>,
           <<Mat(<<<<1>>>>), Mat(<<<<0>>>>)>> }
    ELSE { <<Mat(<<<<1>>, <<2>>>>), Identity(2)>>,
           <<Mat(<<<<1>>, <<0>>>>), Mat(<<<<1, 2>>, <<0, 1>>>>)>> }

\* (measurement, noise) pairs of dimension m
Observations(m) ==
    IF m = 1
    THEN { <<Mat(<<<<2>>>>), Mat(<<<<2>>>>)>>,
           <<Mat(<<<<2>>>>), Mat(<<<<0>>>>)>> }
    ELSE { <<Mat(<<<<1>>, <<2>>>>), MScale(Identity(2), R(2))>>,
           <<Mat(<<<<1>>, <<2>>>>), Zeros(2, 2)>> }

\* control vectors of dimension b
Controls(b) == { None, Some(RowsOf([i \in 1..b |-> <<R(1)>>], b, 1)) }

\* input models of shape n x b: entry (i, j) is j
InputModels(n, b) == { RowsOf([i \in 1..n |-> [j \in 1..b |-> R(j)]], n, b) }

-----------------------------------------------------------------------------
(* impl KalmanFilter *)

\* predict rejecting only negative dt
predict_accepts_zero(cs, dt, u) ==
    IF dt[1] < 0 THEN Err
    ELSE LET transition == MScale(transition_model, dt)
             s == MAdd(cs[1],
                       MAdd(MMul(transition, cs[1]),
                            MMul(input_model, UnwrapOr(u, Zeros(BR, 1)))))
             c == MAdd(cs[2],
                       MAdd(MMul(MMul(transition, cs[2]), Transpose(transition)),
                            measurement_noise))
         IN  Ok(s, c)

\* predict multiplying by the transition on the right without transposing it
predict_no_transpose(cs, dt, u) ==
    IF RLeqZero(dt) THEN Err
    ELSE LET transition == MScale(transition_model, dt)
             s == MAdd(cs[1],
                       MAdd(MMul(transition, cs[1]),
                            MMul(input_model, UnwrapOr(u, Zeros(BR, 1)))))
             c == MAdd(cs[2],
                       MAdd(MMul(MMul(transition, cs[2]), transition),
                            measurement_noise))
         IN  Ok(s, c)

predict(cs, dt, u) ==
    IF RLeqZero(dt) THEN Err
    ELSE LET transition == MScale(transition_model, dt)
             s == MAdd(cs[1],
                       MAdd(MMul(transition, cs[1]),
                            MMul(input_model, UnwrapOr(u, Zeros(BR, 1)))))
             c == MAdd(cs[2],
                       MAdd(MMul(MMul(transition, cs[2]), Transpose(transition)),
                            measurement_noise))
         IN  Ok(s, c)

\* update inverting the projected covariance without the observation's noise
update_without_noise(cs, obs) ==
    LET innovation == MSub(obs[1], MMul(measurement_model, cs[1]))
        innovation_matrix ==
            MMul(MMul(measurement_model, cs[2]), Transpose(measurement_model))
        inv == TryInverse(innovation_matrix)
    IN  IF inv = None THEN Err
        ELSE LET gain == MMul(MMul(cs[2], Transpose(measurement_model)), inv[1])
                 new_state == MAdd(cs[1], MMul(gain, innovation))
                 new_covariance ==
                     MMul(MSub(Identity(TC), MMul(gain, measurement_model)), cs[2])
             IN  Ok(new_state, new_covariance)

\* update adding the gain term to the identity instead of subtracting it
update_plus_gain(cs, obs) ==
    LET innovation == MSub(obs[1], MMul(measurement_model, cs[1]))
        innovation_matrix ==
            MAdd(MMul(MMul(measurement_model, cs[2]), Transpose(measurement_model)),
                 obs[2])
        inv == TryInverse(innovation_matrix)
    IN  IF inv = None THEN Err
        ELSE LET gain == MMul(MMul(cs[2], Transpose(measurement_model)), inv[1])
                 new_state == MAdd(cs[1], MMul(gain, innovation))
                 new_covariance ==
                     MMul(MAdd(Identity(TC), MMul(gain, measurement_model)), cs[2])
             IN  Ok(new_state, new_covariance)

update(cs, obs) ==
    LET innovation == MSub(obs[1], MMul(measurement_model, cs[1]))
        innovation_matrix ==
            MAdd(MMul(MMul(measurement_model, cs[2]), Transpose(measurement_model)),
                 obs[2])
        inv == TryInverse(innovation_matrix)
    IN  IF inv = None THEN Err
        ELSE LET gain == MMul(MMul(cs[2], Transpose(measurement_model)), inv[1])
                 new_state == MAdd(cs[1], MMul(gain, innovation))
                 new_covariance ==
                     MMul(MSub(Identity(TC), MMul(gain, measurement_model)), cs[2])
             IN  Ok(new_state, new_covariance)

\* step storing the prediction before update has succeeded
step_commits_prediction(dt, obs, u) ==
    LET predicted == predict(<<state, covariance>>, dt, u)
    IN  IF ~predicted.ok
        THEN [ret |-> Err, state |-> state, covariance |-> covariance]
        ELSE LET updated == update(<<predicted.state, predicted.covariance>>, obs)
             IN  IF ~updated.ok
                 THEN [ret |-> Err, state |-> predicted.state,
                       covariance |-> predicted.covariance]
                 ELSE [ret |-> updated, state |-> updated.state,
                       covariance |-> updated.covariance]

\* step storing the new state but not the new covariance
step_keeps_covariance(dt, obs, u) ==
    LET predicted == predict(<<state, covariance>>, dt, u)
    IN  IF ~predicted.ok
        THEN [ret |-> Err, state |-> state, covariance |-> covariance]
        ELSE LET updated == update(<<predicted.state, predicted.covariance>>, obs)
             IN  IF ~updated.ok
                 THEN [ret |-> Err, state |-> state, covariance |-> covariance]
                 ELSE [ret |-> updated, state |-> updated.state,
                       covariance |-> covariance]

\* step: the value returned and the (state, covariance) stored afterwards
step(dt, obs, u) ==
    LET predicted == predict(<<state, covariance>>, dt, u)
    IN  IF ~predicted.ok
        THEN [ret |-> Err, state |-> state, covariance |-> covariance]
        ELSE LET updated == update(<<predicted.state, predicted.covariance>>, obs)
             IN  IF ~updated.ok
                 THEN [ret |-> Err, state |-> state, covariance |-> covariance]
                 ELSE [ret |-> updated, state |-> updated.state,
                       covariance |-> updated.covariance]

-----------------------------------------------------------------------------
(* The state machine *)

New(tm, mm, mn, br) ==
    /\ transition_model = tm
    /\ measurement_model = mm
    /\ measurement_noise = mn
    /\ state = Zeros(Rows(tm), 1)
    /\ covariance = Identity(Rows(tm))
    /\ input_model = Zeros(Rows(tm), br)

Init ==
    /\ \E a \in NewArgs : New(a[1], a[2], a[3], a[4])
    /\ last = Call("new", None, None, R(0), None, None, Err)
    /\ calls = 0

WithState(s, c) ==
    /\ calls < MaxCalls
    /\ state' = s
    /\ covariance' = c
    /\ last' = Call("with_state", None, <<s, c>>, R(0), None, None, Err)
    /\ calls' = calls + 1
    /\ UNCHANGED <<transition_model, measurement_model, measurement_noise,
                   input_model>>

WithInputModel(model) ==
    /\ calls < MaxCalls
    /\ input_model' = model
    /\ last' = Call("with_input_model", None, None, R(0), None, None, Err)
    /\ calls' = calls + 1
    /\ UNCHANGED <<transition_model, measurement_model, measurement_noise,
                   state, covariance>>

\* step also storing the new covariance in the noise field
Step_overwrites_noise(dt, obs, u) ==
    /\ calls < MaxCalls
    /\ Small(state) /\ Small(covariance)
    /\ LET r == step(dt, obs, u)
       IN  /\ state' = r.state
           /\ covariance' = r.covariance
           /\ measurement_noise' = r.covariance
           /\ last' = Call("step", <<state, covariance>>, None, dt, obs, u, r.ret)
    /\ calls' = calls + 1
    /\ UNCHANGED <<transition_model, measurement_model, input_model>>

Step(dt, obs, u) ==
    /\ calls < MaxCalls
    /\ Small(state) /\ Small(covariance)
    /\ LET r == step(dt, obs, u)
       IN  /\ state' = r.state
           /\ covariance' = r.covariance
           /\ last' = Call("step", <<state, covariance>>, None, dt, obs, u, r.ret)
    /\ calls' = calls + 1
    /\ UNCHANGED <<transition_model, measurement_model, measurement_noise,
                   input_model>>

\* predict writing its result through to the filter
PredictCall_commits(cs, dt, u) ==
    LET r == predict(cs, dt, u)
    IN  /\ last' = Call("predict", None, cs, dt, None, u, r)
        /\ state' = IF r.ok THEN r.state ELSE state
        /\ covariance' = IF r.ok THEN r.covariance ELSE covariance
        /\ UNCHANGED <<transition_model, measurement_model, measurement_noise,
                       input_model, calls>>

PredictCall(cs, dt, u) ==
    /\ last' = Call("predict", None, cs, dt, None, u, predict(cs, dt, u))
    /\ UNCHANGED <<transition_model, measurement_model, measurement_noise,
                   state, covariance, input_model, calls>>

UpdateCall(cs, obs) ==
    /\ last' = Call("update", None, cs, R(0), obs, None, update(cs, obs))
    /\ UNCHANGED <<transition_model, measurement_model, measurement_noise,
                   state, covariance, input_model, calls>>

Next ==
    \/ \E cs \in CurrentStates(TC) : WithState(cs[1], cs[2])
    \/ \E m \in InputModels(TC, BR) : WithInputModel(m)
    \/ \E dt \in DtValues, obs \in Observations(MR), u \in Controls(BR) :
          Step(dt, obs, u)
    \/ \E cs \in CurrentStates(TC), dt \in DtValues, u \in Controls(BR) :
          PredictCall(cs, dt, u)
    \/ \E cs \in CurrentStates(TC), obs \in Observations(MR) : UpdateCall(cs, obs)

Spec == Init /\ [][Next]_vars

-----------------------------------------------------------------------------
(* Properties *)

Symmetric(A) == A = Transpose(A)

\* F_dt = transition_model * dt
ScaledTransition(dt) == MScale(transition_model, dt)

\* S = measurement_model * P * transpose(measurement_model) + noise
InnovationCovariance(P, noise) ==
    MAdd(MMul(MMul(measurement_model, P), Transpose(measurement_model)), noise)

\* a covariance that only a successful step can have stored
FromStep(P) ==
    /\ P # Identity(TC)
    /\ \A cs \in CurrentStates(TC) : P # cs[2]

\* C1: a step that fails, at predict or at update, leaves the stored state
\* vector and covariance exactly as they were before the call, whatever calls
\* came before it.
C1_FailedStepKeepsState ==
    [][(last'.op = "step" /\ ~last'.ret.ok)
          => (state' = state /\ covariance' = covariance)]_vars

\* a step failing in update (dt > 0, singular innovation covariance) after an
\* earlier step had succeeded
C1_Witness ==
    /\ last.op = "step" /\ ~last.ret.ok
    /\ last.dt[1] > 0
    /\ FromStep(covariance)

\* C2: for dt > 0 predict returns F_dt * state + input_model * control, the
\* absent control being the zero vector.
C2_PredictStateReplaces ==
    (last.op = "predict" /\ last.dt[1] > 0)
        => /\ last.ret.ok
           /\ last.ret.state =
                MAdd(MMul(ScaledTransition(last.dt), last.cs[1]),
                     MMul(input_model, UnwrapOr(last.u, Zeros(BR, 1))))

\* C3: for dt > 0 predict returns F_dt * covariance * transpose(F_dt) +
\* process noise, whatever the control.
C3_PredictCovarianceReplaces ==
    (last.op = "predict" /\ last.dt[1] > 0)
        => /\ last.ret.ok
           /\ last.ret.covariance =
                MAdd(MMul(MMul(ScaledTransition(last.dt), last.cs[2]),
                          Transpose(ScaledTransition(last.dt))),
                     measurement_noise)

\* C4: predict returns TransitionError for every dt <= 0, zero included, and
\* a (state, covariance) result for every dt > 0.
C4_PredictErrIffDtNotPositive ==
    last.op = "predict"
        => /\ last.dt[1] <= 0 => last.ret = Err
           /\ last.dt[1] > 0 => last.ret.ok

\* predict called with dt = 0
C4_Witness ==
    /\ last.op = "predict" /\ last.dt = R(0) /\ last.ret = Err
    /\ TC = 2

\* C5: update returns TransitionError exactly when the innovation covariance
\* S is singular, so in particular for a zero measurement model and zero noise.
C5_UpdateErrIffSingular ==
    last.op = "update"
        => LET S == InnovationCovariance(last.cs[2], last.obs[2])
           IN  /\ (last.ret = Err) <=> RIsZero(Det(S))
               /\ (last.ret # Err) => last.ret.ok
               /\ (measurement_model = Zeros(MR, TC) /\ last.obs[2] = Zeros(MR, MR))
                     => last.ret = Err

\* Scenario D: zero measurement model, zero measurement noise
C5_Witness ==
    /\ last.op = "update"
    /\ measurement_model = Zeros(MR, TC)
    /\ last.obs[2] = Zeros(MR, MR)
    /\ last.cs[2] # Zeros(TC, TC)
    /\ last.ret = Err

ScenarioC ==
    /\ measurement_model = Mat(<<<<1, 1>>>>)
    /\ last.op = "update"
    /\ last.cs = <<Mat(<<<<1>>, <<2>>>>), Identity(2)>>
    /\ last.obs = <<Mat(<<<<2>>>>), Mat(<<<<2>>>>)>>

\* C6: when S is invertible update returns state + K * (measurement -
\* measurement_model * state) and (identity - K * measurement_model) *
\* covariance with K = covariance * transpose(measurement_model) * inverse(S);
\* Scenario C gives [3/4, 7/4] and [[3/4, -1/4], [-1/4, 3/4]].
C6_UpdateFormulas ==
    /\ (last.op = "update" /\ last.ret.ok)
          => LET x == last.cs[1]
                 P == last.cs[2]
                 S == InnovationCovariance(P, last.obs[2])
                 Sinv == TryInverse(S)[1]
                 K == MMul(MMul(P, Transpose(measurement_model)), Sinv)
             IN  /\ MMul(S, Sinv) = Identity(MR)
                 /\ MMul(Sinv, S) = Identity(MR)
                 /\ last.ret.state =
                      MAdd(x, MMul(K, MSub(last.obs[1], MMul(measurement_model, x))))
                 /\ last.ret.covariance =
                      MMul(MSub(Identity(TC), MMul(K, measurement_model)), P)
    /\ ScenarioC
          => /\ last.ret.ok
             /\ last.ret.state = << <<Rat(3, 4)>>, <<Rat(7, 4)>> >>
             /\ last.ret.covariance = << <<Rat(3, 4), Rat(-1, 4)>>,
                                         <<Rat(-1, 4), Rat(3, 4)>> >>

C6_Witness == ScenarioC /\ last.ret.ok

\* C7: step is predict on the stored (state, covariance) followed by update
\* on predict's result: it succeeds exactly when both do, returns update's
\* result, and after a success the stored pair is the returned pair.
C7_StepIsPredictThenUpdate ==
    last.op = "step"
        => LET p == predict(last.pre, last.dt, last.u)
               r == IF p.ok THEN update(<<p.state, p.covariance>>, last.obs)
                    ELSE Err
           IN  /\ last.ret = r
               /\ last.ret.ok <=> (p.ok /\ r.ok)
               /\ r.ok => (state = r.state /\ covariance = r.covariance)

\* a successful step that started from the pair an earlier step had stored
C7_Witness ==
    /\ last.op = "step" /\ last.ret.ok
    /\ FromStep(last.pre[2])
    /\ <<state, covariance>> # last.pre

\* C8: for dt > 0, symmetric input covariance and symmetric process noise
\* give a symmetric predicted covariance, for any transition model and control.
C8_PredictKeepsSymmetry ==
    (/\ last.op = "predict" /\ last.ret.ok
     /\ Symmetric(last.cs[2]) /\ Symmetric(measurement_noise))
        => Symmetric(last.ret.covariance)

\* a non-symmetric transition model, a non-diagonal symmetric noise, a control
C8_Witness ==
    /\ last.op = "predict" /\ last.ret.ok
    /\ TC = 2
    /\ ~Symmetric(transition_model)
    /\ Symmetric(measurement_noise) /\ measurement_noise[1][2] # R(0)
    /\ Symmetric(last.cs[2])
    /\ last.u # None
    /\ input_model # Zeros(TC, BR)

\* C9: predict and update called directly leave the stored state and
\* covariance alone, whether they succeed or fail, and the same call made
\* again right afterwards returns the same result.
C9_DirectCallsArePure ==
    [][/\ last'.op \in {"predict", "update"}
          => (state' = state /\ covariance' = covariance)
       /\ last.op = "predict"
          => last.ret = predict(last.cs, last.dt, last.u)
       /\ last.op = "update"
          => last.ret = update(last.cs, last.obs)]_vars

\* a successful direct predict on a filter whose stored pair differs from
\* both the argument and the result
C9_Witness ==
    /\ last.op = "predict" /\ last.ret.ok
    /\ <<state, covariance>> # last.cs
    /\ state # last.ret.state
    /\ FromStep(covariance)

\* C10: new stores the zero state, the identity covariance and the zero
\* control-input model, and no step, successful or failed, changes the
\* transition model, the measurement model, the process noise or the
\* control-input model.
C10_StepKeepsModels ==
    /\ (state = Zeros(TC, 1) /\ covariance = Identity(TC)
        /\ \A i \in 1..TC, j \in 1..BR : input_model[i][j] = R(0))
    /\ [][last'.op = "step"
             => UNCHANGED <<transition_model, measurement_model,
                            measurement_noise, input_model>>]_vars

\* a successful step, stored, on a filter with a control-input model set
C10_Witness ==
    /\ last.op = "step" /\ last.ret.ok
    /\ FromStep(covariance)
    /\ input_model # Zeros(TC, BR)

====
